---- MODULE Spec2Model ----
(***************************************************************************)
(* Vehicle registration dashboard (src/app.py): the record table built by  *)
(* RealDataFetcher / DataProcessor, the sidebar filter of main(), and the  *)
(* derived tables (YoY / QoQ growth, MoM, market share, manufacturer       *)
(* ranking).  A pandas DataFrame is a sequence of records (its rows in     *)
(* order); a groupby(...).sum().reset_index() is a sequence sorted by the  *)
(* group keys; a float is an exact fraction, NaN or +-inf.                 *)
(***************************************************************************)
EXTENDS Integers, Sequences, FiniteSets, TLC

VARIABLES
    raw,                    \* siam_data['data']: the table the fetcher hands to load
    pc,                     \* "start" | "loaded" | "load_failed" | "no_data" | "rendered"
    df,                     \* the caller's table (main's df)
    processor_df,           \* DataProcessor.df
    start_date, end_date,   \* sidebar date inputs
    selected_vehicle_type,  \* sidebar selectbox
    selected_manufacturer,  \* sidebar selectbox
    df_filtered,            \* the filtered view
    total_registrations,    \* KPI 1
    mom_growth,             \* KPI 4: a float or NotApplicable
    yoy_data, qoq_data,     \* calculate_growth_metrics
    market_share,           \* year_data of create_market_share_chart
    quarterly_data,         \* create_quarterly_trend_chart
    manufacturer_data,      \* get_manufacturer_analysis
    ranking_top_n,          \* the top_n create_manufacturer_comparison is called with
    top_manufacturers,      \* latest_data of create_manufacturer_comparison
    show_raw_data,          \* the "Show Raw Data" checkbox
    display_df              \* the table shown under "Show Raw Data"

vars == <<raw, pc, df, processor_df, start_date, end_date, selected_vehicle_type,
          selected_manufacturer, df_filtered, total_registrations, mom_growth,
          yoy_data, qoq_data, market_share, quarterly_data, manufacturer_data,
          ranking_top_n, top_manufacturers, show_raw_data, display_df>>

(***************************************************************************)
(* Bounds of the model.                                                    *)
(***************************************************************************)
\* Most rows in a loaded table.
MaxRows == 3
\* Largest registration count of a row.
MaxReg == 2
\* Largest top_n a ranking is asked for.
MaxTopN == 2

(***************************************************************************)
(* Helpers.                                                                *)
(***************************************************************************)
Range(s) == {s[i] : i \in 1..Len(s)}

Abs(n) == IF n < 0 THEN -n ELSE n

Max(S) == CHOOSE x \in S : \A y \in S : y <= x

RECURSIVE GCD(_, _)
GCD(a, b) == IF b = 0 THEN a ELSE GCD(b, a % b)

RECURSIVE SumRegistrations(_)
\* df['Registrations'].sum()
SumRegistrations(rows) ==
    IF rows = <<>> THEN 0
    ELSE Head(rows).Registrations + SumRegistrations(Tail(rows))

(***************************************************************************)
(* Floats: an exact fraction in lowest terms with a positive denominator,  *)
(* NaN, or a signed infinity.                                              *)
(***************************************************************************)
NaN == [kind |-> "nan", num |-> 0, den |-> 0]
Inf(sign) == [kind |-> "inf", num |-> sign, den |-> 0]
Frac(n, d) ==
    LET s == IF d < 0 THEN -1 ELSE 1
        g == GCD(Abs(n), Abs(d))
    IN  [kind |-> "num", num |-> (s * n) \div g, den |-> (s * d) \div g]

\* the "N/A" shown in place of a growth figure
NotApplicable == [kind |-> "n/a", num |-> 0, den |-> 0]

\* a / b on floats holding the integers a and b (numpy: x/0 is +-inf, 0/0 is NaN)
FloatDiv(a, b) ==
    IF b = 0
    THEN IF a = 0 THEN NaN ELSE IF a > 0 THEN Inf(1) ELSE Inf(-1)
    ELSE Frac(a, b)

\* x - 1
FloatMinusOne(x) == IF x.kind = "num" THEN Frac(x.num - x.den, x.den) ELSE x

\* x * k for an integer k > 0
FloatTimes(x, k) == IF x.kind = "num" THEN Frac(x.num * k, x.den) ELSE x

(***************************************************************************)
(* Dates: yyyymmdd as an integer, so that date order is integer order.     *)
(***************************************************************************)
MkDate(y, m, d) == y * 10000 + m * 100 + d
YearOf(date) == date \div 10000
MonthOf(date) == (date \div 100) % 100
DayOf(date) == date % 100

IsLeap(y) == (y % 4 = 0 /\ y % 100 # 0) \/ y % 400 = 0
DaysInMonth(y, m) ==
    IF m = 2 THEN (IF IsLeap(y) THEN 29 ELSE 28)
    ELSE IF m \in {4, 6, 9, 11} THEN 30 ELSE 31

\* a parseable calendar date (pd.to_datetime raises on anything else)
IsValidDate(date) ==
    /\ MonthOf(date) \in 1..12
    /\ DayOf(date) \in 1..DaysInMonth(YearOf(date), MonthOf(date))

\* pd.date_range('2021-01-01', '2024-01-01', freq='M'): the month ends
date_range == {MkDate(y, m, DaysInMonth(y, m)) : y \in 2021..2023, m \in 1..12}

\* max() of an empty datetime column
NaT == 0
\* max() of an empty integer column
NaNYear == 0

\* date - pd.DateOffset(months=1): the same day of the previous month, clipped
\* to that month's last day; NaT stays NaT
MinusOneMonth(date) ==
    IF date = NaT THEN NaT
    ELSE LET y == IF MonthOf(date) = 1 THEN YearOf(date) - 1 ELSE YearOf(date)
             m == IF MonthOf(date) = 1 THEN 12 ELSE MonthOf(date) - 1
             last == DaysInMonth(y, m)
         IN  MkDate(y, m, IF DayOf(date) > last THEN last ELSE DayOf(date))

(***************************************************************************)
(* Strings: Python compares them lexicographically; StrOrder lists every   *)
(* string of a key column in that order.                                   *)
(***************************************************************************)
StrOrder == <<"2W", "3W", "4W", "Bajaj", "Hero MotoCorp", "Q1", "Q2", "Q3", "Q4", "TVS">>
StrRank(s) == CHOOSE i \in 1..Len(StrOrder) : StrOrder[i] = s

\* mutant: the year cut into thirds, four months to a quarter
QuarterOfThirds(month) == "Q" \o ToString(((month - 1) \div 4) + 1)

\* quarter = f"Q{((month-1)//3)+1}"
QuarterOf(month) == "Q" \o ToString(((month - 1) \div 3) + 1)

\* real_market_data: the manufacturers of each vehicle type, in dict order
real_market_data ==
    ("2W" :> <<"Hero MotoCorp", "TVS", "Bajaj">>) @@ ("3W" :> <<"Bajaj", "TVS">>)

\* one row appended by generate_siam_based_data
Row(date, vehicle_type, manufacturer, registrations) ==
    [Date |-> date, Year |-> YearOf(date), Month |-> MonthOf(date),
     Quarter |-> QuarterOf(MonthOf(date)), Vehicle_Type |-> vehicle_type,
     Manufacturer |-> manufacturer, Registrations |-> registrations]

(***************************************************************************)
(* pandas: groupby(cols)['Registrations'].sum().reset_index() and          *)
(* groupby(by)['Registrations'].pct_change().                              *)
(***************************************************************************)
\* the sort key of a column value: strings by lexicographic rank
ColRank(col, v) ==
    IF col \in {"Vehicle_Type", "Manufacturer", "Quarter"} THEN StrRank(v) ELSE v

\* key a sorts before key b, column by column
KeyLess(cols, a, b) ==
    \E i \in 1..Len(cols) :
        /\ \A j \in 1..(i - 1) : a[cols[j]] = b[cols[j]]
        /\ ColRank(cols[i], a[cols[i]]) < ColRank(cols[i], b[cols[i]])

\* mutant: every value of the first key column (the period) crossed with every
\* combination of the other key columns, as a reindex over all periods gives
GroupKeysCrossed(rows, cols) ==
    {[c \in Range(cols) |-> IF c = cols[1] THEN rows[i][c] ELSE rows[j][c]] :
        i \in 1..Len(rows), j \in 1..Len(rows)}

\* the distinct key combinations that occur in rows
GroupKeys(rows, cols) == {[c \in Range(cols) |-> rows[i][c]] : i \in 1..Len(rows)}

RECURSIVE SortKeys(_, _)
\* groupby(sort=True): the keys in ascending order
SortKeys(keys, cols) ==
    IF keys = {} THEN <<>>
    ELSE LET least == CHOOSE k \in keys : \A o \in keys \ {k} : KeyLess(cols, k, o)
         IN  <<least>> \o SortKeys(keys \ {least}, cols)

SameKey(row, key, cols) == \A c \in Range(cols) : row[c] = key[c]

\* mutant: groupby(cols)['Registrations'].first(), the first row of each group
GroupByFirst(rows, cols) ==
    LET keys == SortKeys(GroupKeys(rows, cols), cols)
    IN  [i \in 1..Len(keys) |->
            keys[i] @@ ("Registrations" :>
                SelectSeq(rows, LAMBDA r : SameKey(r, keys[i], cols))[1].Registrations)]

\* mutant: groupby(cols)['Registrations'].count(), the number of rows of each
\* group
GroupByCount(rows, cols) ==
    LET keys == SortKeys(GroupKeys(rows, cols), cols)
    IN  [i \in 1..Len(keys) |->
            keys[i] @@ ("Registrations" :>
                Len(SelectSeq(rows, LAMBDA r : SameKey(r, keys[i], cols))))]

\* rows.groupby(cols)['Registrations'].sum().reset_index()
GroupBySum(rows, cols) ==
    LET keys == SortKeys(GroupKeys(rows, cols), cols)
    IN  [i \in 1..Len(keys) |->
            keys[i] @@ ("Registrations" :>
                SumRegistrations(SelectSeq(rows, LAMBDA r : SameKey(r, keys[i], cols))))]

\* mutant: pct_change on the whole column, without the groupby
PreviousInTable(table, by, i) == {j \in 1..(i - 1) : j = i - 1}

\* the rows before row i that belong to row i's group
PreviousInGroup(table, by, i) == {j \in 1..(i - 1) : table[j][by] = table[i][by]}

\* mutant: the change relative to the current value
PctChangeOfCurrent(prev, cur) == FloatDiv(cur - prev, cur)

\* Series.pct_change of one step: cur / prev - 1
PctChange(prev, cur) == FloatMinusOne(FloatDiv(cur, prev))

\* mutant: no growth across a gap, NaN when the group's previous row is more
\* than a year back
GroupPctChangeNoGap(table, by) ==
    [i \in 1..Len(table) |->
        LET before == PreviousInGroup(table, by, i)
        IN  IF before = {} \/ table[Max(before)].Year + 1 < table[i].Year THEN NaN
            ELSE PctChange(table[Max(before)].Registrations, table[i].Registrations)]

\* table.groupby(by)['Registrations'].pct_change(): each row against the row
\* before it in its group, NaN for a group's first row
GroupPctChange(table, by) ==
    [i \in 1..Len(table) |->
        LET before == PreviousInGroup(table, by, i)
        IN  IF before = {} THEN NaN
            ELSE PctChange(table[Max(before)].Registrations, table[i].Registrations)]

\* table[col] = values
WithColumn(table, col, values) ==
    [i \in 1..Len(table) |-> table[i] @@ (col :> values[i])]

(***************************************************************************)
(* DataProcessor and the chart builders.                                   *)
(***************************************************************************)
\* DataProcessor.calculate_growth_metrics: [yoy_data, qoq_data]
calculate_growth_metrics(view) ==
    LET yoy == GroupBySum(view, <<"Year", "Vehicle_Type">>)
        yoy_pct == GroupPctChange(yoy, "Vehicle_Type")
        qoq == GroupBySum(view, <<"Year", "Quarter", "Vehicle_Type">>)
        qoq_period == WithColumn(qoq, "Period",
                          [i \in 1..Len(qoq) |-> ToString(qoq[i].Year) \o "-" \o qoq[i].Quarter])
        qoq_pct == GroupPctChange(qoq_period, "Vehicle_Type")
    IN  [yoy_data |-> WithColumn(yoy, "YoY_Growth",
                          [i \in 1..Len(yoy) |-> FloatTimes(yoy_pct[i], 100)]),
         qoq_data |-> WithColumn(qoq_period, "QoQ_Growth",
                          [i \in 1..Len(qoq) |-> FloatTimes(qoq_pct[i], 100)])]

\* DataProcessor.get_manufacturer_analysis
get_manufacturer_analysis(self_df, vehicle_type) ==
    LET rows == IF vehicle_type # "All"
                THEN SelectSeq(self_df, LAMBDA r : r.Vehicle_Type = vehicle_type)
                ELSE self_df
        by_year == GroupBySum(rows, <<"Year", "Manufacturer">>)
        pct == GroupPctChange(by_year, "Manufacturer")
    IN  WithColumn(by_year, "YoY_Growth",
            [i \in 1..Len(by_year) |-> FloatTimes(pct[i], 100)])

\* create_market_share_chart: year_data, the values and names of the pie
create_market_share_chart(view, year) ==
    GroupBySum(SelectSeq(view, LAMBDA r : r.Year = year), <<"Vehicle_Type">>)

\* create_quarterly_trend_chart: quarterly_data
create_quarterly_trend_chart(view) ==
    LET quarterly == GroupBySum(view, <<"Year", "Quarter", "Vehicle_Type">>)
    IN  WithColumn(quarterly, "Period",
            [i \in 1..Len(quarterly) |->
                ToString(quarterly[i].Year) \o "-" \o quarterly[i].Quarter])

\* column.max() of a datetime column
MaxDate(rows) == IF rows = <<>> THEN NaT ELSE Max({rows[i].Date : i \in 1..Len(rows)})
\* column.max() of the Year column
MaxYear(rows) == IF rows = <<>> THEN NaNYear ELSE Max({rows[i].Year : i \in 1..Len(rows)})

\* Series.sort_values(ascending=False) with the default kind='quicksort',
\* which is not stable: every descending order of the rows, rows of equal
\* value in any order
SortValuesDescending(table) ==
    LET n == Len(table)
        orders == {p \in [1..n -> 1..n] :
                      /\ \A i \in 1..n : \A j \in 1..n : p[i] = p[j] => i = j
                      /\ \A i \in 1..n : \A j \in (i + 1)..n :
                             table[p[i]].Registrations >= table[p[j]].Registrations}
    IN  {[i \in 1..n |-> table[p[i]]] : p \in orders}

RECURSIVE SelectNLargest(_, _)
\* nlargest below len(table), keep='first': the n largest values, found with a
\* stable sort, so rows of equal value stay in their order in table
SelectNLargest(table, n) ==
    IF n = 0 \/ table = <<>> THEN <<>>
    ELSE LET top == Max({table[i].Registrations : i \in 1..Len(table)})
             first == CHOOSE i \in 1..Len(table) :
                          /\ table[i].Registrations = top
                          /\ \A j \in 1..(i - 1) : table[j].Registrations # top
             rest == [j \in 1..(Len(table) - 1) |->
                          IF j < first THEN table[j] ELSE table[j + 1]]
         IN  <<table[first]>> \o SelectNLargest(rest, n - 1)

\* table.nlargest(n, 'Registrations'): the tables it can return.  With
\* n >= len(table) pandas sorts the whole column (sort_values().head(n)).
NLargest(table, n) ==
    IF n <= 0 THEN {<<>>}
    ELSE IF n >= Len(table) THEN SortValuesDescending(table)
    ELSE {SelectNLargest(table, n)}

\* create_manufacturer_comparison: the latest_data it can chart
create_manufacturer_comparison(data, top_n) ==
    LET latest_year == MaxYear(data)
    IN  NLargest(SelectSeq(data, LAMBDA r : r.Year = latest_year), top_n)

\* table.sort_values('Date', ascending=False) with the default
\* kind='quicksort': every order of the rows by descending date, rows of one
\* date in any order
SortByDateDescending(table) ==
    LET n == Len(table)
        orders == {p \in [1..n -> 1..n] :
                      /\ \A i \in 1..n : \A j \in 1..n : p[i] = p[j] => i = j
                      /\ \A i \in 1..n : \A j \in (i + 1)..n :
                             table[p[i]].Date >= table[p[j]].Date}
    IN  {[i \in 1..n |-> table[p[i]]] : p \in orders}

\* main, "Show Raw Data": the display_df it can show
RawDataTable(view) ==
    SortByDateDescending(GroupBySum(view, <<"Date", "Vehicle_Type", "Manufacturer">>))

\* main, KPI column 4: the MoM growth shown, a float or "N/A"
MoMGrowth(view) ==
    LET latest_month == MaxDate(view)
        latest_month_data ==
            SumRegistrations(SelectSeq(view, LAMBDA r : r.Date = latest_month))
        prev_month_data ==
            SumRegistrations(SelectSeq(view,
                LAMBDA r : r.Date = MinusOneMonth(latest_month)))
    IN  IF prev_month_data > 0
        THEN FloatTimes(FloatDiv(latest_month_data - prev_month_data, prev_month_data), 100)
        ELSE NotApplicable

\* mutant: the end of the date range is exclusive
FilterDataBeforeEnd(table, start, end, vehicle_type, manufacturer) ==
    LET in_range == SelectSeq(table, LAMBDA r : r.Date >= start /\ r.Date < end)
        of_type == IF vehicle_type # "All"
                   THEN SelectSeq(in_range, LAMBDA r : r.Vehicle_Type = vehicle_type)
                   ELSE in_range
    IN  IF manufacturer # "All"
        THEN SelectSeq(of_type, LAMBDA r : r.Manufacturer = manufacturer)
        ELSE of_type

\* main, "Filter data": the three selections applied one after the other
FilterData(table, start, end, vehicle_type, manufacturer) ==
    LET in_range == SelectSeq(table, LAMBDA r : r.Date >= start /\ r.Date <= end)
        of_type == IF vehicle_type # "All"
                   THEN SelectSeq(in_range, LAMBDA r : r.Vehicle_Type = vehicle_type)
                   ELSE in_range
    IN  IF manufacturer # "All"
        THEN SelectSeq(of_type, LAMBDA r : r.Manufacturer = manufacturer)
        ELSE of_type

(***************************************************************************)
(* The tables the fetcher can hand over: at most MaxRows rows in the order *)
(* generate_siam_based_data appends them (by date, then vehicle type, then *)
(* manufacturer).                                                          *)
(***************************************************************************)
IndexIn(seq, x) == CHOOSE i \in 1..Len(seq) : seq[i] = x

Rows(dates, combos, regs) ==
    {Row(d, c[1], c[2], n) : d \in dates, c \in combos, n \in regs}

\* the position of a row in the generator's loops
GenKey(r) ==
    <<r.Date, StrRank(r.Vehicle_Type),
      IndexIn(real_market_data[r.Vehicle_Type], r.Manufacturer)>>

\* row a comes before row b in the generator's loops
GenLess(a, b) ==
    LET ka == GenKey(a)
        kb == GenKey(b)
    IN  \E i \in 1..3 : (\A j \in 1..(i - 1) : ka[j] = kb[j]) /\ ka[i] < kb[i]

\* the same (Date, Vehicle_Type, Manufacturer), in non-decreasing count
GenDuplicate(a, b) ==
    /\ \A j \in 1..3 : GenKey(a)[j] = GenKey(b)[j]
    /\ a.Registrations <= b.Registrations

\* tables as generate_siam_based_data builds them: one row per
\* (Date, Vehicle_Type, Manufacturer), in the order of its loops
GeneratedTables(rows) ==
    UNION {{s \in [1..n -> rows] : \A i \in 1..(n - 1) : GenLess(s[i], s[i + 1])} :
              n \in 0..MaxRows}

\* any table a caller can pass to DataProcessor: rows may repeat a key
AnyTables(rows) ==
    UNION {{s \in [1..n -> rows] :
               \A i \in 1..(n - 1) : GenLess(s[i], s[i + 1]) \/ GenDuplicate(s[i], s[i + 1])} :
              n \in 0..MaxRows}

(***************************************************************************)
(* Load and render.                                                        *)
(***************************************************************************)
\* DataProcessor.__init__: a copy of the table with Date passed to
\* pd.to_datetime, which leaves a timestamp as it is
DataProcessorInit(table) == [i \in 1..Len(table) |-> table[i]]

\* the options of the two selectboxes
VehicleTypeOptions(table) == {"All"} \cup {table[i].Vehicle_Type : i \in 1..Len(table)}
ManufacturerOptions(table, vehicle_type) ==
    {"All"} \cup {table[i].Manufacturer :
                    i \in {j \in 1..Len(table) :
                             vehicle_type = "All" \/ table[j].Vehicle_Type = vehicle_type}}

\* the dates offered to the two date inputs
DateChoices(table) == {table[i].Date : i \in 1..Len(table)}

\* top_n of create_manufacturer_comparison as main calls it
DefaultTopN == 10

InitWith(tables, top_ns) ==
    /\ raw \in tables
    /\ ranking_top_n \in top_ns
    /\ pc = "start"
    /\ df = <<>>
    /\ processor_df = <<>>
    /\ start_date = NaT
    /\ end_date = NaT
    /\ selected_vehicle_type = "All"
    /\ selected_manufacturer = "All"
    /\ df_filtered = <<>>
    /\ total_registrations = 0
    /\ mom_growth = NotApplicable
    /\ yoy_data = <<>>
    /\ qoq_data = <<>>
    /\ market_share = <<>>
    /\ quarterly_data = <<>>
    /\ manufacturer_data = <<>>
    /\ top_manufacturers = <<>>
    /\ show_raw_data = FALSE
    /\ display_df = <<>>

\* load_and_process_data: runs once (st.cache_data)
Load ==
    /\ pc = "start"
    /\ IF \A i \in 1..Len(raw) : IsValidDate(raw[i].Date)
       THEN /\ df' = raw
            /\ processor_df' = DataProcessorInit(raw)
            /\ pc' = "loaded"
       ELSE \* pd.to_datetime raises: no DataProcessor is built
            /\ pc' = "load_failed"
            /\ UNCHANGED <<df, processor_df>>
    /\ UNCHANGED <<raw, start_date, end_date, selected_vehicle_type,
                   selected_manufacturer, df_filtered, total_registrations,
                   mom_growth, yoy_data, qoq_data, market_share, quarterly_data,
                   manufacturer_data, ranking_top_n, top_manufacturers,
                   show_raw_data, display_df>>

\* mutant: the filter drops the unselected rows from main's df itself
MainFilteringInPlace ==
    /\ pc = "loaded"
    /\ df # <<>>
    /\ \E start \in DateChoices(df), end \in DateChoices(df),
          vehicle_type \in VehicleTypeOptions(df) :
       \E manufacturer \in ManufacturerOptions(df, vehicle_type) :
           /\ pc' = "rendered"
           /\ start_date' = start
           /\ end_date' = end
           /\ selected_vehicle_type' = vehicle_type
           /\ selected_manufacturer' = manufacturer
           /\ df' = FilterData(df, start, end, vehicle_type, manufacturer)
           /\ df_filtered' = df'
    /\ UNCHANGED <<raw, processor_df, total_registrations, mom_growth, yoy_data,
                   qoq_data, market_share, quarterly_data, manufacturer_data,
                   ranking_top_n, top_manufacturers, show_raw_data, display_df>>

\* main: one run of the script with the widgets' current values
Main ==
    /\ pc = "loaded"
    /\ IF df = <<>>
       THEN \* st.error(...); return
            /\ pc' = "no_data"
            /\ UNCHANGED <<start_date, end_date, selected_vehicle_type,
                           selected_manufacturer, df_filtered, total_registrations,
                           mom_growth, yoy_data, qoq_data, market_share,
                           quarterly_data, manufacturer_data, top_manufacturers,
                           show_raw_data, display_df>>
       ELSE \E start \in DateChoices(df), end \in DateChoices(df),
               vehicle_type \in VehicleTypeOptions(df) :
            \E manufacturer \in ManufacturerOptions(df, vehicle_type), checked \in BOOLEAN :
            LET view == FilterData(df, start, end, vehicle_type, manufacturer)
                growth == calculate_growth_metrics(view)
                by_manufacturer == get_manufacturer_analysis(processor_df, vehicle_type)
            IN  /\ pc' = "rendered"
                /\ start_date' = start
                /\ end_date' = end
                /\ selected_vehicle_type' = vehicle_type
                /\ selected_manufacturer' = manufacturer
                /\ df_filtered' = view
                /\ total_registrations' = SumRegistrations(view)
                /\ mom_growth' = MoMGrowth(view)
                /\ yoy_data' = growth.yoy_data
                /\ qoq_data' = growth.qoq_data
                /\ market_share' = create_market_share_chart(view, MaxYear(view))
                /\ quarterly_data' = create_quarterly_trend_chart(view)
                /\ manufacturer_data' = by_manufacturer
                /\ top_manufacturers' \in
                       IF by_manufacturer # <<>>
                       THEN create_manufacturer_comparison(by_manufacturer, ranking_top_n)
                       ELSE {<<>>}
                /\ show_raw_data' = checked
                /\ display_df' \in IF checked THEN RawDataTable(view) ELSE {<<>>}
    /\ UNCHANGED <<raw, df, processor_df, ranking_top_n>>

\* a widget changes: Streamlit runs the script again from the top, and the
\* previous run's tables are gone (df and the DataProcessor stay cached)
Rerun ==
    /\ pc = "rendered"
    /\ pc' = "loaded"
    /\ start_date' = NaT
    /\ end_date' = NaT
    /\ selected_vehicle_type' = "All"
    /\ selected_manufacturer' = "All"
    /\ df_filtered' = <<>>
    /\ total_registrations' = 0
    /\ mom_growth' = NotApplicable
    /\ yoy_data' = <<>>
    /\ qoq_data' = <<>>
    /\ market_share' = <<>>
    /\ quarterly_data' = <<>>
    /\ manufacturer_data' = <<>>
    /\ top_manufacturers' = <<>>
    /\ show_raw_data' = FALSE
    /\ display_df' = <<>>
    /\ UNCHANGED <<raw, df, processor_df, ranking_top_n>>

Next == Load \/ Main \/ Rerun

\* the generator's tables over two entities: one with rows in three quarters
\* of two years, one with rows in two years; ranked with main's top_n
Init ==
    InitWith(GeneratedTables(
                 Rows({20210131, 20210430, 20220131}, {<<"2W", "Hero MotoCorp">>}, 0..MaxReg)
                 \cup Rows({20210131, 20220131}, {<<"3W", "Bajaj">>}, 0..MaxReg)),
             {DefaultTopN})

Spec == Init /\ [][Next]_vars

\* three consecutive months of one entity, and a second entity in the middle one
InitMoM ==
    InitWith(GeneratedTables(
                 Rows({20210131, 20210228, 20210331}, {<<"2W", "Hero MotoCorp">>}, 0..MaxReg)
                 \cup Rows({20210228}, {<<"3W", "Bajaj">>}, 0..MaxReg)),
             {DefaultTopN})

SpecMoM == InitMoM /\ [][Next]_vars

\* three manufacturers in the latest year and one of them in the year before,
\* ranked with a top_n of 1..MaxTopN
InitRank ==
    InitWith(GeneratedTables(
                 Rows({20220131}, {<<"2W", "Hero MotoCorp">>, <<"2W", "TVS">>,
                                   <<"2W", "Bajaj">>}, 0..MaxReg)
                 \cup Rows({20210131}, {<<"2W", "Hero MotoCorp">>}, 0..MaxReg)),
             1..MaxTopN)

SpecRank == InitRank /\ [][Next]_vars

\* DataProcessor built from any table: rows may repeat a key, carry a negative
\* count or a date that does not parse (20210231)
InitLoad ==
    InitWith(AnyTables(Rows({20210131, 20210231},
                            {<<"2W", "Hero MotoCorp">>, <<"3W", "Bajaj">>},
                            (-1)..MaxReg)),
             {DefaultTopN})

SpecLoad == InitLoad /\ [][Next]_vars

\* one entity with rows in two quarters of one year and in a year two years
\* later, and a second entity with a row in the year between
InitGap ==
    InitWith(GeneratedTables(
                 Rows({20210131, 20210430, 20230131}, {<<"2W", "Hero MotoCorp">>}, 0..MaxReg)
                 \cup Rows({20220131}, {<<"3W", "Bajaj">>}, 0..MaxReg)),
             {DefaultTopN})

SpecGap == InitGap /\ [][Next]_vars

\* one entity with rows in up to MaxRows of the twelve months of 2021
InitQuarter ==
    InitWith(GeneratedTables(
                 Rows({d \in date_range : YearOf(d) = 2021}, {<<"2W", "Hero MotoCorp">>}, {1})),
             {DefaultTopN})

SpecQuarter == InitQuarter /\ [][Next]_vars

\* one manufacturer with rows in two vehicle types, in two years
InitEntity ==
    InitWith(GeneratedTables(
                 Rows({20210131, 20220131}, {<<"2W", "Bajaj">>, <<"3W", "Bajaj">>}, 0..MaxReg)),
             {DefaultTopN})

SpecEntity == InitEntity /\ [][Next]_vars

(***************************************************************************)
(* Vocabulary of the properties: a growth table's entity column, growth    *)
(* column and period, and the predecessor of a row by period order.        *)
(***************************************************************************)
\* the calendar position of a row's period: the year, or the quarter of a year
YearPeriod(row) == row.Year
QuarterPeriod(row) == row.Year * 4 + (StrRank(row.Quarter) - StrRank("Q1"))

\* the three growth tables of a rendered page: the table, its entity column,
\* its growth column, and whether its periods are quarters
GrowthTables ==
    {[table |-> yoy_data, by |-> "Vehicle_Type", growth |-> "YoY_Growth", quarterly |-> FALSE],
     [table |-> qoq_data, by |-> "Vehicle_Type", growth |-> "QoQ_Growth", quarterly |-> TRUE],
     [table |-> manufacturer_data, by |-> "Manufacturer", growth |-> "YoY_Growth",
      quarterly |-> FALSE]}

PeriodIn(g, i) == IF g.quarterly THEN QuarterPeriod(g.table[i]) ELSE YearPeriod(g.table[i])

\* the rows of row i's entity in earlier periods
EarlierRows(g, i) ==
    {j \in 1..Len(g.table) :
        /\ g.table[j][g.by] = g.table[i][g.by]
        /\ PeriodIn(g, j) < PeriodIn(g, i)}

\* the row of row i's entity in the latest earlier period
Predecessor(g, i) ==
    CHOOSE j \in EarlierRows(g, i) : \A k \in EarlierRows(g, i) : PeriodIn(g, k) <= PeriodIn(g, j)

GrowthOf(g, i) == g.table[i][g.growth]

(***************************************************************************)
(* C1. In every growth table (YoY and QoQ by vehicle category, YoY by      *)
(* manufacturer), a row whose previous period's total is 0 has undefined   *)
(* growth (NaN), whether its own total is positive or 0: never a number,   *)
(* never an infinity.                                                      *)
(***************************************************************************)
C1_ZeroBaselineIsUndefined ==
    pc = "rendered" =>
        \A g \in GrowthTables : \A i \in 1..Len(g.table) :
            (EarlierRows(g, i) # {} /\ g.table[Predecessor(g, i)].Registrations = 0)
                => GrowthOf(g, i) = NaN

\* the rows of the view in calendar month (year, month)
RowsOfMonth(view, year, month) ==
    SelectSeq(view, LAMBDA r : r.Year = year /\ r.Month = month)

(***************************************************************************)
(* C2. MoM compares the latest month of the filtered view with the         *)
(* calendar month right before it: when that month has rows in the view    *)
(* with a positive total, MoM is (total(M) - total(M-1)) / total(M-1) *    *)
(* 100, and MoM is "N/A" exactly when that month has no rows in the view   *)
(* or its total is 0.                                                      *)
(***************************************************************************)
C2_MoMAgainstPrecedingMonth ==
    (pc = "rendered" /\ df_filtered # <<>>) =>
        LET latest == MaxDate(df_filtered)
            year == YearOf(latest)
            month == MonthOf(latest)
            current == SumRegistrations(RowsOfMonth(df_filtered, year, month))
            before == IF month = 1
                      THEN RowsOfMonth(df_filtered, year - 1, 12)
                      ELSE RowsOfMonth(df_filtered, year, month - 1)
            previous == SumRegistrations(before)
        IN  /\ (before # <<>> /\ previous > 0) =>
                    /\ mom_growth.kind = "num"
                    /\ mom_growth.num * previous = (current - previous) * 100 * mom_growth.den
            /\ mom_growth = NotApplicable <=> (before = <<>> \/ previous = 0)

(***************************************************************************)
(* C3. In every growth table, a row whose predecessor (the row of the same *)
(* entity in the latest earlier period) has a non-zero total has the       *)
(* growth (current - previous) / previous * 100.                           *)
(***************************************************************************)
C3_GrowthIsPercentChange ==
    pc = "rendered" =>
        \A g \in GrowthTables : \A i \in 1..Len(g.table) :
            EarlierRows(g, i) # {} =>
                LET previous == g.table[Predecessor(g, i)].Registrations
                    current == g.table[i].Registrations
                    growth == GrowthOf(g, i)
                IN  previous # 0 =>
                        /\ growth.kind = "num"
                        /\ growth.num * previous = (current - previous) * 100 * growth.den

\* a quarterly table where an entity's third period grew by 100% on its second,
\* which differs from its first
C3_Witness ==
    /\ pc = "rendered"
    /\ \E i \in 1..Len(qoq_data) :
        LET g == [table |-> qoq_data, by |-> "Vehicle_Type", growth |-> "QoQ_Growth",
                  quarterly |-> TRUE]
        IN  /\ Cardinality(EarlierRows(g, i)) = 2
            /\ qoq_data[Predecessor(g, i)].Registrations = 1
            /\ qoq_data[i].Registrations = 2
            /\ \E j \in EarlierRows(g, i) : qoq_data[j].Registrations = 2
            /\ qoq_data[i].QoQ_Growth = [kind |-> "num", num |-> 100, den |-> 1]

(***************************************************************************)
(* C4. In every growth table, the row of an entity's first period has      *)
(* undefined growth (NaN), whatever rows of other entities come before it. *)
(***************************************************************************)
C4_FirstPeriodIsUndefined ==
    pc = "rendered" =>
        \A g \in GrowthTables : \A i \in 1..Len(g.table) :
            EarlierRows(g, i) = {} => GrowthOf(g, i) = NaN

\* an entity's first row comes right after a row of another entity with a
\* non-zero total, and a later row of the same entity has a defined growth
C4_Witness ==
    /\ pc = "rendered"
    /\ \E i \in 2..Len(yoy_data) :
        /\ yoy_data[i].Vehicle_Type # yoy_data[i - 1].Vehicle_Type
        /\ yoy_data[i - 1].Registrations > 0
        /\ yoy_data[i].Registrations > 0
        /\ \A j \in 1..(i - 1) : yoy_data[j].Vehicle_Type # yoy_data[i].Vehicle_Type
        /\ yoy_data[i].YoY_Growth = NaN
        /\ \E k \in (i + 1)..Len(yoy_data) :
            /\ yoy_data[k].Vehicle_Type = yoy_data[i].Vehicle_Type
            /\ yoy_data[k].YoY_Growth.kind = "num"

\* the rows of manufacturer_data in its latest year
LatestYearRows ==
    SelectSeq(manufacturer_data, LAMBDA r : r.Year = MaxYear(manufacturer_data))

(***************************************************************************)
(* C5. The manufacturer ranking holds at most top_n rows, all of the       *)
(* ranked (latest) year, in descending order of total registrations, rows  *)
(* of equal total in ascending order of manufacturer name; no row left out *)
(* has a larger total than a row kept.                                     *)
(***************************************************************************)
C5_RankingOrder ==
    pc = "rendered" =>
        /\ Len(top_manufacturers) <= ranking_top_n
        /\ Len(top_manufacturers) <= Len(LatestYearRows)
        /\ Len(top_manufacturers) = ranking_top_n \/ Len(top_manufacturers) = Len(LatestYearRows)
        /\ Range(top_manufacturers) \subseteq Range(LatestYearRows)
        /\ \A i \in 1..Len(top_manufacturers) : \A j \in (i + 1)..Len(top_manufacturers) :
            \/ top_manufacturers[i].Registrations > top_manufacturers[j].Registrations
            \/ /\ top_manufacturers[i].Registrations = top_manufacturers[j].Registrations
               /\ StrRank(top_manufacturers[i].Manufacturer)
                      < StrRank(top_manufacturers[j].Manufacturer)
        /\ \A r \in Range(LatestYearRows) \ Range(top_manufacturers) :
            \A k \in Range(top_manufacturers) :
                \/ k.Registrations > r.Registrations
                \/ /\ k.Registrations = r.Registrations
                   /\ StrRank(k.Manufacturer) < StrRank(r.Manufacturer)

\* row r passes the three selections of the sidebar
Selected(r) ==
    /\ start_date <= r.Date
    /\ r.Date <= end_date
    /\ selected_vehicle_type = "All" \/ r.Vehicle_Type = selected_vehicle_type
    /\ selected_manufacturer = "All" \/ r.Manufacturer = selected_manufacturer

\* how many rows of the table equal r
Occurrences(table, r) == Cardinality({i \in 1..Len(table) : table[i] = r})

(***************************************************************************)
(* C6. The filtered view holds exactly the rows of the table whose date    *)
(* lies in [start_date, end_date], whose vehicle type is the selected one  *)
(* unless that is 'All', and whose manufacturer is the selected one unless *)
(* that is 'All', in the table's order.                                    *)
(***************************************************************************)
C6_FilterIsConjunction ==
    pc = "rendered" =>
        /\ \A r \in Range(df) :
            Occurrences(df_filtered, r) = IF Selected(r) THEN Occurrences(df, r) ELSE 0
        /\ Range(df_filtered) \subseteq Range(df)
        /\ \A i \in 1..Len(df_filtered) : \A j \in (i + 1)..Len(df_filtered) :
            \E a \in 1..Len(df) : \E b \in (a + 1)..Len(df) :
                df[a] = df_filtered[i] /\ df[b] = df_filtered[j]

\* a view that keeps a row dated start_date = end_date and drops one row for
\* its date alone and one for its manufacturer alone
C6_Witness ==
    /\ pc = "rendered"
    /\ start_date = end_date
    /\ selected_vehicle_type = "All"
    /\ selected_manufacturer # "All"
    /\ \E r \in Range(df_filtered) : r.Date = start_date
    /\ \E r \in Range(df) :
        /\ r.Date # start_date
        /\ r.Manufacturer = selected_manufacturer
        /\ r \notin Range(df_filtered)
    /\ \E r \in Range(df) :
        /\ r.Date = start_date
        /\ r.Manufacturer # selected_manufacturer
        /\ r \notin Range(df_filtered)

(***************************************************************************)
(* C7. When the filter matches no row, every table derived for the page    *)
(* (YoY and QoQ growth, quarterly totals, market share, manufacturer       *)
(* ranking) is empty, the total is 0 and MoM is "N/A".                     *)
(***************************************************************************)
C7_EmptyViewGivesEmptyResults ==
    (pc = "rendered" /\ df_filtered = <<>>) =>
        /\ total_registrations = 0
        /\ mom_growth = NotApplicable
        /\ yoy_data = <<>>
        /\ qoq_data = <<>>
        /\ quarterly_data = <<>>
        /\ market_share = <<>>
        /\ top_manufacturers = <<>>

(***************************************************************************)
(* C8. When the period of the market-share chart (the latest year of the   *)
(* view) has a total of zero registrations, the market-share mapping is    *)
(* empty.                                                                  *)
(***************************************************************************)
C8_ZeroPeriodGivesEmptyShare ==
    pc = "rendered" =>
        (SumRegistrations(SelectSeq(df_filtered, LAMBDA r : r.Year = MaxYear(df_filtered))) = 0
            => market_share = <<>>)

\* rows a and b carry the same (Date, Vehicle_Type, Manufacturer)
SameTriple(a, b) ==
    /\ a.Date = b.Date
    /\ a.Vehicle_Type = b.Vehicle_Type
    /\ a.Manufacturer = b.Manufacturer

(***************************************************************************)
(* C9. The loaded store holds at most one row per (Date, Vehicle_Type,     *)
(* Manufacturer), whose count is the sum of the counts of the input rows   *)
(* of that triple.                                                         *)
(***************************************************************************)
C9_DuplicatesAreCoalesced ==
    pc = "loaded" =>
        /\ \A i \in 1..Len(processor_df) : \A j \in 1..Len(processor_df) :
            SameTriple(processor_df[i], processor_df[j]) => i = j
        /\ \A i \in 1..Len(raw) : \E j \in 1..Len(processor_df) :
            /\ SameTriple(processor_df[j], raw[i])
            /\ processor_df[j].Registrations =
                   SumRegistrations(SelectSeq(raw, LAMBDA r : SameTriple(r, raw[i])))

(***************************************************************************)
(* C10. Loading a table with a row of negative registrations or with a     *)
(* date that does not parse fails and builds no store.                     *)
(***************************************************************************)
C10_InvalidBatchIsRejected ==
    (\E i \in 1..Len(raw) : raw[i].Registrations < 0 \/ ~IsValidDate(raw[i].Date)) =>
        /\ pc \in {"start", "load_failed"}
        /\ df = <<>>
        /\ processor_df = <<>>

\* the rows get_manufacturer_analysis aggregates: the DataProcessor's table
\* restricted to the selected vehicle type
ManufacturerInput ==
    SelectSeq(processor_df,
        LAMBDA r : selected_vehicle_type = "All" \/ r.Vehicle_Type = selected_vehicle_type)

(***************************************************************************)
(* C11. Each aggregated table of the page has the same total of            *)
(* registrations as the rows it aggregates: yoy_data (Year, Vehicle_Type), *)
(* qoq_data and quarterly_data (Year, Quarter, Vehicle_Type) and the raw   *)
(* data table (Date, Vehicle_Type, Manufacturer) as the filtered view,     *)
(* manufacturer_data (Year, Manufacturer) as the rows handed to it.        *)
(***************************************************************************)
C11_SumIsPreserved ==
    pc = "rendered" =>
        /\ SumRegistrations(yoy_data) = SumRegistrations(df_filtered)
        /\ SumRegistrations(qoq_data) = SumRegistrations(df_filtered)
        /\ SumRegistrations(quarterly_data) = SumRegistrations(df_filtered)
        /\ SumRegistrations(manufacturer_data) = SumRegistrations(ManufacturerInput)
        /\ show_raw_data => SumRegistrations(display_df) = SumRegistrations(df_filtered)

\* a proper part of the table is in view, two of its rows with different
\* positive counts fall into one year of one vehicle type, and the raw data
\* table is shown
C11_Witness ==
    /\ pc = "rendered"
    /\ show_raw_data
    /\ Len(df_filtered) < Len(df)
    /\ Len(yoy_data) < Len(df_filtered)
    /\ Len(display_df) = Len(df_filtered)
    /\ \E i \in 1..Len(df_filtered) : \E j \in (i + 1)..Len(df_filtered) :
        /\ df_filtered[i].Year = df_filtered[j].Year
        /\ df_filtered[i].Vehicle_Type = df_filtered[j].Vehicle_Type
        /\ df_filtered[i].Registrations > 0
        /\ df_filtered[j].Registrations > df_filtered[i].Registrations

\* rows a and b carry the same values in the key columns
AgreeOn(a, b, cols) == \A c \in Range(cols) : a[c] = b[c]

\* table has exactly one row for each key combination of input, and no other
OneRowPerKey(table, input, cols) ==
    /\ \A i \in 1..Len(input) :
        Cardinality({j \in 1..Len(table) : AgreeOn(table[j], input[i], cols)}) = 1
    /\ \A j \in 1..Len(table) : \E i \in 1..Len(input) : AgreeOn(table[j], input[i], cols)

(***************************************************************************)
(* C12. Each aggregated table of the page has exactly one row for every    *)
(* combination of its key columns that occurs in the rows it aggregates,   *)
(* and no row for a combination that does not occur in them.               *)
(***************************************************************************)
C12_OneRowPerOccurringKey ==
    pc = "rendered" =>
        /\ OneRowPerKey(yoy_data, df_filtered, <<"Year", "Vehicle_Type">>)
        /\ OneRowPerKey(qoq_data, df_filtered, <<"Year", "Quarter", "Vehicle_Type">>)
        /\ OneRowPerKey(quarterly_data, df_filtered, <<"Year", "Quarter", "Vehicle_Type">>)
        /\ OneRowPerKey(manufacturer_data, ManufacturerInput, <<"Year", "Manufacturer">>)
        /\ show_raw_data =>
               OneRowPerKey(display_df, df_filtered, <<"Date", "Vehicle_Type", "Manufacturer">>)

\* a view where one vehicle type has two rows in a year and none in another
\* year, in which a second vehicle type has a row
C12_Witness ==
    /\ pc = "rendered"
    /\ \E i \in 1..Len(df_filtered) : \E j \in (i + 1)..Len(df_filtered) :
        /\ df_filtered[i].Year = df_filtered[j].Year
        /\ df_filtered[i].Vehicle_Type = df_filtered[j].Vehicle_Type
        /\ \E k \in 1..Len(df_filtered) :
            /\ df_filtered[k].Vehicle_Type # df_filtered[i].Vehicle_Type
            /\ df_filtered[k].Year # df_filtered[i].Year
            /\ \A m \in 1..Len(df_filtered) :
                df_filtered[m].Vehicle_Type = df_filtered[i].Vehicle_Type
                    => df_filtered[m].Year = df_filtered[i].Year
    /\ Len(yoy_data) = 2
    /\ Len(qoq_data) = 3

\* the rows a growth table is computed from
GrowthInput(g) == IF g.by = "Manufacturer" THEN ManufacturerInput ELSE df_filtered

\* record r of the input lies in the period and entity of row i of the table
InPeriodOf(g, i, r) ==
    /\ r[g.by] = g.table[i][g.by]
    /\ r.Year = g.table[i].Year
    /\ g.quarterly => r.Quarter = g.table[i].Quarter

(***************************************************************************)
(* C13. In every growth table, a row whose entity has no row in the period *)
(* right before it, but has one in an earlier period, has its growth       *)
(* computed against the nearest earlier period present: with a non-zero    *)
(* total there, (current - previous) / previous * 100.  The table has no   *)
(* row for a period in which the entity has no record.                     *)
(***************************************************************************)
C13_GrowthSpansGaps ==
    pc = "rendered" =>
        \A g \in GrowthTables :
            /\ \A i \in 1..Len(g.table) :
                \E k \in 1..Len(GrowthInput(g)) : InPeriodOf(g, i, GrowthInput(g)[k])
            /\ \A i \in 1..Len(g.table) :
                (EarlierRows(g, i) # {} /\ PeriodIn(g, Predecessor(g, i)) < PeriodIn(g, i) - 1) =>
                    LET previous == g.table[Predecessor(g, i)].Registrations
                        current == g.table[i].Registrations
                        growth == GrowthOf(g, i)
                    IN  previous # 0 =>
                            /\ growth.kind = "num"
                            /\ growth.num * previous = (current - previous) * 100 * growth.den

\* a vehicle type with a total of 1 in 2021, no row in 2022 and a total of 2
\* in 2023, which shows as a growth of 100%, while another vehicle type has
\* a row in 2022; the quarterly table skips from 2021-Q1 to 2023-Q1
C13_Witness ==
    /\ pc = "rendered"
    /\ \E i \in 1..Len(yoy_data) : \E j \in 1..Len(yoy_data) : \E k \in 1..Len(yoy_data) :
        /\ yoy_data[i].Vehicle_Type = yoy_data[j].Vehicle_Type
        /\ yoy_data[k].Vehicle_Type # yoy_data[i].Vehicle_Type
        /\ yoy_data[i].Year = 2021 /\ yoy_data[i].Registrations = 1
        /\ yoy_data[k].Year = 2022
        /\ yoy_data[j].Year = 2023 /\ yoy_data[j].Registrations = 2
        /\ yoy_data[j].YoY_Growth = [kind |-> "num", num |-> 100, den |-> 1]
    /\ Len(yoy_data) = 3
    /\ \E i \in 1..Len(qoq_data) :
        /\ qoq_data[i].Period = "2023-Q1"
        /\ qoq_data[i].QoQ_Growth = [kind |-> "num", num |-> 100, den |-> 1]

(***************************************************************************)
(* C14. Once loaded, the caller's table and the DataProcessor's table are  *)
(* never changed: no run of the page (filter, growth metrics, manufacturer *)
(* analysis, charts, raw data table) and no rerun alters a row of either.  *)
(***************************************************************************)
C14_StoreIsImmutable ==
    [][pc # "start" => (df' = df /\ processor_df' = processor_df)]_vars

\* a page rendered from a proper, non-empty part of a three-row table, with
\* every derived table non-empty, and both tables still as loaded
C14_Witness ==
    /\ pc = "rendered"
    /\ Len(df) >= 3
    /\ df = raw
    /\ processor_df = DataProcessorInit(raw)
    /\ df_filtered # <<>>
    /\ Len(df_filtered) < Len(df)
    /\ yoy_data # <<>>
    /\ qoq_data # <<>>
    /\ quarterly_data # <<>>
    /\ market_share # <<>>
    /\ Len(manufacturer_data) > Len(top_manufacturers)
    /\ top_manufacturers # <<>>
    /\ show_raw_data
    /\ display_df # <<>>

\* aggregating the aggregated table once more by the same keys gives back its
\* rows: the same key combinations with the same totals, in the same order
Reaggregated(table, cols) ==
    LET again == GroupBySum(table, cols)
    IN  /\ Len(again) = Len(table)
        /\ \A i \in 1..Len(table) :
            /\ AgreeOn(again[i], table[i], cols)
            /\ again[i].Registrations = table[i].Registrations

(***************************************************************************)
(* C15. Aggregating an aggregated table again by the same keys returns the *)
(* same key combinations with the same totals: for yoy_data, qoq_data,     *)
(* quarterly_data and manufacturer_data of the page, and for the raw data  *)
(* aggregate of the filtered view by (Date, Vehicle_Type, Manufacturer).   *)
(***************************************************************************)
C15_AggregationIsIdempotent ==
    pc = "rendered" =>
        /\ Reaggregated(yoy_data, <<"Year", "Vehicle_Type">>)
        /\ Reaggregated(qoq_data, <<"Year", "Quarter", "Vehicle_Type">>)
        /\ Reaggregated(quarterly_data, <<"Year", "Quarter", "Vehicle_Type">>)
        /\ Reaggregated(manufacturer_data, <<"Year", "Manufacturer">>)
        /\ Reaggregated(GroupBySum(df_filtered, <<"Date", "Vehicle_Type", "Manufacturer">>),
                        <<"Date", "Vehicle_Type", "Manufacturer">>)

\* a yearly table of two vehicle types in which one row is the total of two
\* rows of the view with different positive counts
C15_Witness ==
    /\ pc = "rendered"
    /\ Len(yoy_data) = 2
    /\ Len(df_filtered) = 3
    /\ yoy_data[1].Vehicle_Type # yoy_data[2].Vehicle_Type
    /\ \E k \in 1..Len(yoy_data) :
        \E i \in 1..Len(df_filtered) : \E j \in (i + 1)..Len(df_filtered) :
            /\ AgreeOn(df_filtered[i], yoy_data[k], <<"Year", "Vehicle_Type">>)
            /\ AgreeOn(df_filtered[j], yoy_data[k], <<"Year", "Vehicle_Type">>)
            /\ df_filtered[i].Registrations > 0
            /\ df_filtered[j].Registrations > df_filtered[i].Registrations
            /\ yoy_data[k].Registrations =
                   df_filtered[i].Registrations + df_filtered[j].Registrations

\* the number n of a quarter label "Qn"
QuarterNumber(quarter) == StrRank(quarter) - StrRank("Q1") + 1

(***************************************************************************)
(* C16. Every record of the loaded table has a month in 1..12 and the      *)
(* quarter Qn with n = ceil(month / 3), that is 3 * (n - 1) < month <=     *)
(* 3 * n with n in 1..4; records of one month carry one quarter.           *)
(***************************************************************************)
C16_QuarterIsCeilOfMonthByThree ==
    /\ \A i \in 1..Len(df) :
        /\ df[i].Month \in 1..12
        /\ df[i].Quarter \in {"Q1", "Q2", "Q3", "Q4"}
        /\ 3 * (QuarterNumber(df[i].Quarter) - 1) < df[i].Month
        /\ df[i].Month <= 3 * QuarterNumber(df[i].Quarter)
    /\ \A i \in 1..Len(df) : \A j \in 1..Len(df) :
        df[i].Month = df[j].Month => df[i].Quarter = df[j].Quarter

\* a loaded table with the last month of a quarter, the first month of the
\* next one and the last month of the year
C16_Witness ==
    /\ pc = "rendered"
    /\ \E i \in 1..Len(df) : df[i].Month = 6 /\ df[i].Quarter = "Q2"
    /\ \E i \in 1..Len(df) : df[i].Month = 7 /\ df[i].Quarter = "Q3"
    /\ \E i \in 1..Len(df) : df[i].Month = 12 /\ df[i].Quarter = "Q4"

\* the rows of the filtered view of one year and one manufacturer
ViewRowsOf(year, manufacturer) ==
    SelectSeq(df_filtered, LAMBDA r : r.Year = year /\ r.Manufacturer = manufacturer)

(***************************************************************************)
(* C17. The manufacturer table and the ranking are computed from the       *)
(* filtered view: each of their rows is a (year, manufacturer) that has    *)
(* rows in the view, its total is the total of those rows, and the ranked  *)
(* year is the latest year of the view.                                    *)
(***************************************************************************)
C17_RankingFromFilteredView ==
    pc = "rendered" =>
        /\ \A i \in 1..Len(manufacturer_data) :
            LET row == manufacturer_data[i]
            IN  /\ ViewRowsOf(row.Year, row.Manufacturer) # <<>>
                /\ row.Registrations =
                       SumRegistrations(ViewRowsOf(row.Year, row.Manufacturer))
        /\ \A i \in 1..Len(top_manufacturers) :
            LET row == top_manufacturers[i]
            IN  /\ row.Year = MaxYear(df_filtered)
                /\ row.Registrations =
                       SumRegistrations(ViewRowsOf(row.Year, row.Manufacturer))

\* the rows get_manufacturer_analysis is given that are totalled in a row of
\* its table
TotalledIn(row) ==
    SelectSeq(ManufacturerInput,
        LAMBDA r : r.Year = row.Year /\ r.Manufacturer = row.Manufacturer)

(***************************************************************************)
(* C18. A row of the manufacturer table, and so of the ranking, totals the *)
(* records of one (vehicle type, manufacturer) only: records of the same   *)
(* manufacturer in two vehicle types are never summed into one row,        *)
(* whatever the vehicle type selection.                                    *)
(***************************************************************************)
C18_EntityIsCategoryAndManufacturer ==
    pc = "rendered" =>
        \A row \in Range(manufacturer_data) \cup Range(top_manufacturers) :
            \A i \in 1..Len(TotalledIn(row)) : \A j \in 1..Len(TotalledIn(row)) :
                TotalledIn(row)[i].Vehicle_Type = TotalledIn(row)[j].Vehicle_Type

====
